---- MODULE Spec2Model ----
(***************************************************************************)
(* A model of dump_eps.py (root2html): main, HighSlideRootFileIndex,       *)
(* walk, strip_root_ext and make_dir_if_needed.                            *)
(*                                                                         *)
(* A string is a sequence of one-character strings, so that prefixes,      *)
(* suffixes, joins and sorting are computed character by character.        *)
(* A TDirectory is the list of its keys in the container's native          *)
(* enumeration order; a key is [name, kind, keys], keys being the          *)
(* contents when the key is a TDirectory.  Key names are unique within one *)
(* directory: top.Get(k) addresses a child by its name alone.              *)
(***************************************************************************)
EXTENDS Integers, Sequences, FiniteSets, TLC

VARIABLES
    args,        \* main: the input paths left after option parsing
    pattern,     \* main: the -p option
    disk,        \* the containers read so far, one for each input path opened
    dirs,        \* the file system: the set of existing directories
    pc,          \* position of the main thread
    err,         \* the exception that ended the run, "" when none
    i,           \* main: position of `path` in args
    t_start,     \* main: time.time() before the loop
    t_stop,      \* main: time.time() after the loop
    n_plots,     \* main: plots counted so far
    dirname,     \* HighSlideRootFileIndex.dirname
    rootfile,    \* write_root_file: "closed", "open" (TFile state)
    file_plots,  \* write_root_file: its local n_plots
    records,     \* write_root_file: what the walk generator will yield
    rec,         \* write_root_file: number of records consumed
    key,         \* write_root_file: position of `key` in filenames
    basepath,    \* write_canvas: its basepath argument
    trace,       \* calls made on the collaborators, in order
    returned,    \* what each finished write_root_file call returned
    summary,     \* the printed summary
    cpath,       \* concurrent callers of make_dir_if_needed: their path
    cpc          \* concurrent callers of make_dir_if_needed: their position

vars == <<args, pattern, disk, dirs, pc, err, i, t_start, t_stop, n_plots,
          dirname, rootfile, file_plots, records, rec, key, basepath, trace,
          returned, summary, cpath, cpc>>

mainVars == <<args, pattern, disk, pc, err, i, t_start, t_stop, n_plots,
              dirname, rootfile, file_plots, records, rec, key, basepath,
              trace, returned, summary>>

-----------------------------------------------------------------------------
(* Bounds *)

\* size of a run's input: its input files after the first, and the keys of
\* their containers, all levels together
MaxNodes == 3
\* input files of one run
MaxFiles == 2
\* the clock, in ticks since main first read it: at most MaxTime
MaxTime == 1

-----------------------------------------------------------------------------
(* Strings *)

Ord(c) ==
    CASE c = " " -> 32 [] c = "(" -> 40 [] c = "." -> 46 [] c = "/" -> 47
      [] c = "1" -> 49 [] c = ":" -> 58
      [] c = "a" -> 97 [] c = "b" -> 98 [] c = "c" -> 99 [] c = "d" -> 100
      [] c = "e" -> 101 [] c = "h" -> 104 [] c = "i" -> 105 [] c = "l" -> 108
      [] c = "m" -> 109 [] c = "n" -> 110 [] c = "o" -> 111 [] c = "p" -> 112
      [] c = "r" -> 114 [] c = "s" -> 115 [] c = "t" -> 116 [] c = "v" -> 118
      [] c = "x" -> 120

Min(S) == CHOOSE x \in S : \A y \in S : x <= y

Drop(s, n) == SubSeq(s, n + 1, Len(s))

Take(s, n) == SubSeq(s, 1, n)

StartsWith(s, p) == Len(p) <= Len(s) /\ Take(s, Len(p)) = p

\* str.__lt__: byte-wise lexicographic order
StrLess(s, t) ==
    \E n \in 0..Len(s) :
        /\ n <= Len(t)
        /\ Take(s, n) = Take(t, n)
        /\ \/ n = Len(s) /\ n < Len(t)
           \/ n < Len(s) /\ n < Len(t) /\ Ord(s[n + 1]) < Ord(t[n + 1])

\* str.count('/')
CountSlash(s) == Cardinality({n \in 1..Len(s) : s[n] = "/"})

\* str.rfind('/') + 1
RFindSlash1(s) ==
    IF CountSlash(s) = 0 THEN 0
    ELSE CHOOSE n \in 1..Len(s) : s[n] = "/" /\ \A m \in (n + 1)..Len(s) : s[m] # "/"

RECURSIVE RStripSlash(_)
RStripSlash(s) ==
    IF s # <<>> /\ s[Len(s)] = "/" THEN RStripSlash(Take(s, Len(s) - 1)) ELSE s

RECURSIVE Insert(_, _)
Insert(x, s) ==
    IF s = <<>> THEN <<x>>
    ELSE IF StrLess(s[1], x) THEN <<s[1]>> \o Insert(x, Tail(s))
    ELSE <<x>> \o s

\* as Sort, the list left in the order it came in
Unsorted(s) == s

RECURSIVE Sort(_)
\* list.sort() on a list of strings (insertion into the sorted tail)
Sort(s) == IF s = <<>> THEN <<>> ELSE Insert(s[1], Sort(Tail(s)))

DotRoot == <<".", "r", "o", "o", "t">>
DotCanv == <<".", "c", "a", "n", "v">>
DotEps == <<".", "e", "p", "s">>
IndexHtml == <<"i", "n", "d", "e", "x", ".", "h", "t", "m", "l">>
ColonSlash == <<":", "/">>

-----------------------------------------------------------------------------
(* os.path *)

\* os.path.join(a, b)
Join(a, b) ==
    IF b # <<>> /\ b[1] = "/" THEN b
    ELSE IF a = <<>> \/ a[Len(a)] = "/" THEN a \o b
    ELSE a \o <<"/">> \o b

\* os.path.split(path)[0], which is os.path.dirname(path)
Dirname(path) ==
    LET head == Take(path, RFindSlash1(path))
    IN  IF head # <<>> /\ RStripSlash(head) # <<>> THEN RStripSlash(head) ELSE head

\* the directory a path string names: is it absolute, and its components
RECURSIVE Components(_)
Components(p) ==
    IF p = <<>> THEN <<>>
    ELSE IF p[1] = "/" THEN Components(Tail(p))
    ELSE LET n == IF CountSlash(p) = 0 THEN Len(p)
                  ELSE Min({m \in 1..Len(p) : p[m] = "/"}) - 1
         IN  <<Take(p, n)>> \o Components(Drop(p, n))

Node(p) == [abs |-> p # <<>> /\ p[1] = "/", parts |-> Components(p)]

\* os.path.isdir(d): the root and the working directory always exist
IsDir(fs, d) == d # <<>> /\ (Node(d).parts = <<>> \/ Node(d) \in fs)

\* os.makedirs(d): the directory and every missing ancestor
MakeDirs(fs, d) ==
    fs \cup {[abs |-> Node(d).abs, parts |-> Take(Node(d).parts, n)] :
                n \in 1..Len(Node(d).parts)}

-----------------------------------------------------------------------------
(* re *)

\* The indexes n at which '(\S*?)(\.canv)?(\.root)(\.\d*)?' can match with
\* group 1 = path[:n]: group 1 holds no white space and is followed by
\* '.canv.root' or by '.root'.  re.match anchors the start only.
RootExtMatches(path) ==
    {n \in 0..Len(path) :
        /\ \A m \in 1..n : path[m] # " "
        /\ \/ StartsWith(Drop(path, n), DotCanv \o DotRoot)
           \/ StartsWith(Drop(path, n), DotRoot)}

\* `reo` is a match object (the assert passes)
RootExtFound(path) == RootExtMatches(path) # {}

\* strip_root_ext(path): group 1 of the match; \S*? is lazy, so the shortest
strip_root_ext(path) == Take(path, Min(RootExtMatches(path)))

\* re.compile fails for the pattern (here: an unbalanced parenthesis)
ReError(p) == \E n \in 1..Len(p) : p[n] = "("

\* re.match(p, s) for a pattern of literal characters: p is a prefix of s
ReMatch(p, s) == StartsWith(s, p)

\* as SplitColonSlash1, splitting on ':' alone: dirpath.split(':')[1]
SplitColon1(s) ==
    LET At(u) == {n \in 1..Len(u) : u[n] = ":"}
        after == Drop(s, Min(At(s)))
    IN  IF At(after) = {} THEN after ELSE Take(after, Min(At(after)) - 1)

\* dirpath.split(':/')[1]
SplitColonSlash1(s) ==
    LET At(u) == {n \in 1..(Len(u) - 1) : u[n] = ":" /\ u[n + 1] = "/"}
        after == Drop(s, Min(At(s)) + 1)
    IN  IF At(after) = {} THEN after ELSE Take(after, Min(At(after)) - 1)

-----------------------------------------------------------------------------
(* ROOT containers *)

Names == {<<"a", "b">>, <<"b">>}

LeafKinds == {"TCanvas", "TH1F"}

RECURSIVE Size(_)
\* the number of keys of a directory, all levels together
Size(keys) ==
    IF keys = <<>> THEN 0 ELSE 1 + Size(keys[1].keys) + Size(Tail(keys))

KeyNames(keys) == {keys[n].name : n \in 1..Len(keys)}

RECURSIVE KeyLists(_)
\* the directories of at most n keys, in every native order of their keys
KeyLists(n) ==
    IF n = 0 THEN {<<>>}
    ELSE LET smaller == KeyLists(n - 1)
             first ==
                 {[name |-> nm, kind |-> k, keys |-> <<>>] :
                     nm \in Names, k \in LeafKinds}
                 \cup {[name |-> nm, kind |-> "TDirectory", keys |-> sub] :
                     nm \in Names, sub \in smaller}
         IN  {<<>>} \cup
             UNION {{<<f>> \o rest :
                        rest \in {r \in smaller :
                            /\ f.name \notin KeyNames(r)
                            /\ 1 + Size(f.keys) + Size(r) <= n}} :
                    f \in first}

\* top.Get(k)
Get(top, k) == top[CHOOSE n \in 1..Len(top) : top[n].name = k]

\* TDirectory.GetPath() of the child `name` of the directory at dirpath
GetPath(dirpath, name) ==
    IF dirpath[Len(dirpath)] = "/" THEN dirpath \o name
    ELSE dirpath \o <<"/">> \o name

\* TFile.GetPath()
FilePath(path) == path \o ColonSlash

RECURSIVE walk(_, _, _)
\* walk(top, topdown): the records the generator yields, in order
walk(top, dirpath, topdown) ==
    LET names == [n \in 1..Len(top) |-> top[n].name]
        IsDirName(k) == Get(top, k).kind = "TDirectory"
        IsFileName(k) == ~IsDirName(k)
        dirnames == Sort(SelectSeq(names, IsDirName))
        filenames == Sort(SelectSeq(names, IsFileName))
        this == <<[dirpath |-> dirpath, dirnames |-> dirnames,
                   filenames |-> filenames, top |-> top]>>
        Below[n \in 0..Len(dirnames)] ==
            IF n = 0 THEN <<>>
            ELSE Below[n - 1] \o
                 walk(Get(top, dirnames[n]).keys,
                      GetPath(dirpath, dirnames[n]), topdown)
    IN  (IF topdown THEN this ELSE <<>>)
        \o Below[Len(dirnames)]
        \o (IF topdown THEN <<>> ELSE this)

\* as make_dir_if_needed, the test being path.count('/') > 1
make_dir_if_nested(fs, path) ==
    IF CountSlash(path) > 1 /\ ~IsDir(fs, Dirname(path))
    THEN MakeDirs(fs, Dirname(path))
    ELSE fs

\* make_dir_if_needed(path) on the file system fs, run without interruption
make_dir_if_needed(fs, path) ==
    IF CountSlash(path) > 0 /\ ~IsDir(fs, Dirname(path))
    THEN MakeDirs(fs, Dirname(path))
    ELSE fs

-----------------------------------------------------------------------------
(* The run of main *)

InputPaths ==
    { <<"a">> \o DotRoot,
      <<"a">> \o DotCanv \o DotRoot,
      <<"b">> \o DotRoot \o <<".", "1">>,
      DotRoot,
      <<"a">> \o DotRoot \o <<"x">>,
      <<"a", ".", "t", "x", "t">> }

Patterns == {<<>>, <<"a", "b">>, <<"(">>}

Sum(f) ==
    LET S[n \in 0..Len(f)] == IF n = 0 THEN 0 ELSE S[n - 1] + f[n]
    IN  S[Len(f)]

\* the directories of at most n keys, for each n
Containers == [n \in 0..MaxNodes |-> KeyLists(n)]

\* the keys the containers not yet opened may hold
Unread == MaxNodes + 1 - Len(args) - Sum([j \in 1..Len(disk) |-> Size(disk[j])])

Call(op, arg) == [op |-> op, file |-> i, arg |-> arg]

\* the os.makedirs call make_dir_if_needed(path) makes, if any
MakedirsCall(fs, path, file) ==
    IF fs = make_dir_if_needed(fs, path) THEN <<>>
    ELSE <<[op |-> "makedirs", file |-> file, arg |-> Dirname(path)]>>

Idle == [c \in {1, 2} |-> "idle"]

Init ==
    /\ \E n \in 1..MaxFiles :
          args \in {a \in [1..n -> InputPaths] :
                      \A j, k \in 1..n : a[j] = a[k] => j = k}
    /\ Len(args) <= MaxNodes + 1
    /\ disk = <<>>
    /\ pattern \in Patterns
    /\ dirs = {}
    /\ pc = "main"
    /\ err = ""
    /\ i = 0
    /\ t_start = 0
    /\ t_stop = 0
    /\ n_plots = 0
    /\ dirname = <<>>
    /\ rootfile = "closed"
    /\ file_plots = 0
    /\ records = <<>>
    /\ rec = 0
    /\ key = 0
    /\ basepath = <<>>
    /\ trace = <<>>
    /\ returned = <<>>
    /\ summary = <<>>
    /\ cpath = [c \in {1, 2} |-> <<>>]
    /\ cpc = Idle

\* main, lines 99-100
Start ==
    /\ pc = "main"
    /\ t_start' = 0
    /\ n_plots' = 0
    /\ pc' = "for"
    /\ UNCHANGED <<args, pattern, disk, dirs, err, i, t_stop, dirname, rootfile,
                   file_plots, records, rec, key, basepath, trace, returned,
                   summary, cpath, cpc>>

\* as IndexName, the two strings concatenated: path_wo_ext + 'index.html'
IndexNameFlat(path_wo_ext) == path_wo_ext \o IndexHtml

\* main, line 105: os.path.join(path_wo_ext, 'index.html')
IndexName(path_wo_ext) == Join(path_wo_ext, IndexHtml)

\* main, lines 103-106: the next path, strip_root_ext and the index object
Index ==
    /\ pc = "for"
    /\ i < Len(args)
    /\ LET path == args[i + 1]
           name == IndexName(strip_root_ext(path))
       IN  \/ /\ ~RootExtFound(path)
              /\ pc' = "error"
              /\ err' = "AssertionError"
              /\ UNCHANGED <<i, dirs, dirname, trace>>
           \/ /\ RootExtFound(path)
              /\ i' = i + 1
              /\ dirs' = make_dir_if_needed(dirs, name)
              /\ trace' = trace \o MakedirsCall(dirs, name, i + 1)
              /\ dirname' = Dirname(name)
              /\ pc' = "write_root_file"
              /\ err' = err
    /\ UNCHANGED <<args, pattern, disk, t_start, t_stop, n_plots, rootfile,
                   file_plots, records, rec, key, basepath, returned, summary,
                   cpath, cpc>>

\* write_root_file, lines 125-127: open the container, start the generator
TFile ==
    /\ pc = "write_root_file"
    /\ file_plots' = 0
    /\ rootfile' = "open"
    /\ \E top \in Containers[Unread] :
          /\ disk' = Append(disk, top)
          /\ records' = walk(top, FilePath(args[i]), TRUE)
    /\ rec' = 0
    /\ key' = 0
    /\ trace' = Append(trace, Call("TFile", args[i]))
    /\ pc' = "walk"
    /\ UNCHANGED <<args, pattern, dirs, err, i, t_start, t_stop, n_plots,
                   dirname, basepath, returned, summary, cpath, cpc>>

\* write_root_file, line 127: the generator yields its next record
Yield ==
    /\ pc = "walk"
    /\ rec < Len(records)
    /\ rec > 0 => key = Len(records[rec].filenames)
    /\ rec' = rec + 1
    /\ key' = 0
    /\ UNCHANGED <<args, pattern, disk, dirs, pc, err, i, t_start, t_stop,
                   n_plots, dirname, rootfile, file_plots, records, basepath,
                   trace, returned, summary, cpath, cpc>>

\* write_root_file, lines 128-137: the next key of the record
Key ==
    /\ pc = "walk"
    /\ rec > 0
    /\ key < Len(records[rec].filenames)
    /\ key' = key + 1
    /\ LET dirpath == records[rec].dirpath
           tdirectory == records[rec].top
           k == records[rec].filenames[key + 1]
           obj == Get(tdirectory, k)
           root_dir_path == SplitColonSlash1(dirpath)
           root_key_path == Join(root_dir_path, k)
           full_path == Join(dirname, root_key_path)
       IN  \/ /\ obj.kind # "TCanvas"
              /\ UNCHANGED <<pc, err, basepath, trace>>
           \/ /\ obj.kind = "TCanvas"
              /\ pattern # <<>>
              /\ ReError(pattern)
              /\ pc' = "error"
              /\ err' = "re.error"
              /\ UNCHANGED <<basepath, trace>>
           \/ /\ obj.kind = "TCanvas"
              /\ pattern # <<>>
              /\ ~ReError(pattern)
              /\ ~ReMatch(pattern, root_key_path)
              /\ UNCHANGED <<pc, err, basepath, trace>>
           \/ /\ obj.kind = "TCanvas"
              /\ pattern # <<>> => ~ReError(pattern) /\ ReMatch(pattern, root_key_path)
              /\ trace' = trace \o <<Call("print", Join(dirpath, k)),
                                     Call("write_canvas", full_path)>>
              /\ basepath' = full_path
              /\ pc' = "write_canvas"
              /\ err' = err
    /\ UNCHANGED <<args, pattern, disk, dirs, i, t_start, t_stop, n_plots,
                   dirname, rootfile, file_plots, records, rec, returned,
                   summary, cpath, cpc>>

\* write_canvas, lines 144-145
MakeDir ==
    /\ pc = "write_canvas"
    /\ dirs' = make_dir_if_needed(dirs, basepath)
    /\ trace' = trace \o MakedirsCall(dirs, basepath, i)
    /\ pc' = "SaveAs"
    /\ UNCHANGED <<args, pattern, disk, err, i, t_start, t_stop, n_plots,
                   dirname, rootfile, file_plots, records, rec, key, basepath,
                   returned, summary, cpath, cpc>>

\* write_canvas, lines 147-149, and write_root_file, line 138
SaveAs ==
    /\ pc = "SaveAs"
    /\ trace' = Append(trace, Call("SaveAs", basepath \o DotEps))
    /\ file_plots' = file_plots + 1
    /\ pc' = "walk"
    /\ UNCHANGED <<args, pattern, disk, dirs, err, i, t_start, t_stop, n_plots,
                   dirname, rootfile, records, rec, key, basepath, returned,
                   summary, cpath, cpc>>

\* as Close, main assigning the count with = where the code has +=
CloseAssign ==
    /\ pc = "walk"
    /\ rec = Len(records)
    /\ rec > 0 => key = Len(records[rec].filenames)
    /\ rootfile' = "closed"
    /\ trace' = Append(trace, Call("Close", args[i]))
    /\ returned' = Append(returned, file_plots)
    /\ n_plots' = file_plots
    /\ pc' = "for"
    /\ UNCHANGED <<args, pattern, disk, dirs, err, i, t_start, t_stop, dirname,
                   file_plots, records, rec, key, basepath, summary, cpath, cpc>>

\* write_root_file, lines 139-140, and main, line 107: the generator is
\* exhausted
Close ==
    /\ pc = "walk"
    /\ rec = Len(records)
    /\ rec > 0 => key = Len(records[rec].filenames)
    /\ rootfile' = "closed"
    /\ trace' = Append(trace, Call("Close", args[i]))
    /\ returned' = Append(returned, file_plots)
    /\ n_plots' = n_plots + file_plots
    /\ pc' = "for"
    /\ UNCHANGED <<args, pattern, disk, dirs, err, i, t_start, t_stop, dirname,
                   file_plots, records, rec, key, basepath, summary, cpath, cpc>>

\* '%.2f' % x for x = num / den, in hundredths (round half up)
Hundredths(num, den) == (200 * num + den) \div (2 * den)

\* main, lines 109-113
Report ==
    /\ pc = "for"
    /\ i = Len(args)
    /\ \E t \in t_start..MaxTime :
          /\ t_stop' = t
          /\ \/ /\ t = t_start
                /\ pc' = "error"
                /\ err' = "ZeroDivisionError"
                /\ summary' = <<n_plots, t - t_start>>
             \/ /\ t # t_start
                /\ pc' = "done"
                /\ err' = err
                /\ summary' = <<n_plots, t - t_start,
                                Hundredths(n_plots, t - t_start)>>
    /\ UNCHANGED <<args, pattern, disk, dirs, i, t_start, n_plots, dirname,
                   rootfile, file_plots, records, rec, key, basepath, trace,
                   returned, cpath, cpc>>

Next ==
    \/ Start
    \/ Index
    \/ TFile
    \/ Yield
    \/ Key
    \/ MakeDir
    \/ SaveAs
    \/ Close
    \/ Report

Spec == Init /\ [][Next]_vars

-----------------------------------------------------------------------------
(* Two callers of make_dir_if_needed at the same time *)

Callers == {1, 2}

CallerPaths ==
    { <<"b">>,
      <<"a", "/", "b">>,
      <<"a", "/", "a", "b">>,
      <<"a", "/", "b", "/", "b">>,
      <<"a", "/", "a", "b", "/", "b">> }

InitCallers ==
    /\ cpath \in [Callers -> CallerPaths]
    /\ cpc = [c \in Callers |-> "if"]
    /\ dirs \in {{}, {Node(<<"a">>)}}
    /\ args = <<>>
    /\ pattern = <<>>
    /\ disk = <<>>
    /\ pc = "callers"
    /\ err = ""
    /\ i = 0
    /\ t_start = 0
    /\ t_stop = 0
    /\ n_plots = 0
    /\ dirname = <<>>
    /\ rootfile = "closed"
    /\ file_plots = 0
    /\ records = <<>>
    /\ rec = 0
    /\ key = 0
    /\ basepath = <<>>
    /\ trace = <<>>
    /\ returned = <<>>
    /\ summary = <<>>

\* make_dir_if_needed, lines 202-204: the two tests
IsDirTest(c) ==
    /\ cpc[c] = "if"
    /\ cpc' = [cpc EXCEPT ![c] =
                 IF CountSlash(cpath[c]) > 0 /\ ~IsDir(dirs, Dirname(cpath[c]))
                 THEN "makedirs" ELSE "return"]
    /\ UNCHANGED <<dirs, cpath>>
    /\ UNCHANGED mainVars

\* make_dir_if_needed, line 205: os.makedirs creates the missing ancestors
\* and then the directory, and raises OSError when the directory exists
Makedirs(c) ==
    /\ cpc[c] = "makedirs"
    /\ \/ /\ IsDir(dirs, Dirname(cpath[c]))
          /\ cpc' = [cpc EXCEPT ![c] = "OSError"]
          /\ dirs' = dirs
       \/ /\ ~IsDir(dirs, Dirname(cpath[c]))
          /\ cpc' = [cpc EXCEPT ![c] = "return"]
          /\ dirs' = MakeDirs(dirs, Dirname(cpath[c]))
    /\ UNCHANGED cpath
    /\ UNCHANGED mainVars

NextCallers == \E c \in Callers : IsDirTest(c) \/ Makedirs(c)

SpecCallers == InitCallers /\ [][NextCallers]_vars

-----------------------------------------------------------------------------
(* What the claims speak of *)

Range(f) == {f[n] : n \in 1..Len(f)}

\* a group or object path relative to the container: names joined by '/'
RelPath(group, name) == IF group = <<>> THEN name ELSE group \o <<"/">> \o name

RECURSIVE Objects(_, _)
\* the objects of a directory, all levels: their full path and their kind
Objects(keys, group) ==
    UNION {IF keys[n].kind = "TDirectory"
           THEN Objects(keys[n].keys, RelPath(group, keys[n].name))
           ELSE {[path |-> RelPath(group, keys[n].name), kind |-> keys[n].kind]} :
           n \in 1..Len(keys)}

RECURSIVE Groups(_, _)
\* the groups of a directory, itself included: their path
Groups(keys, group) ==
    {group} \cup
    UNION {IF keys[n].kind = "TDirectory"
           THEN Groups(keys[n].keys, RelPath(group, keys[n].name))
           ELSE {} : n \in 1..Len(keys)}

\* the objects the filter accepts
Accepted(keys) ==
    {o \in Objects(keys, <<>>) :
        o.kind = "TCanvas" /\ (pattern = <<>> \/ ReMatch(pattern, o.path))}

\* the base paths handed to write_canvas for input file j, in order
Calls(j) ==
    LET Mine(e) == e.op = "write_canvas" /\ e.file = j
        calls == SelectSeq(trace, Mine)
    IN  [n \in 1..Len(calls) |-> calls[n].arg]

\* the files the renderer wrote for input file j
Outputs(j) ==
    {e.arg : e \in {e \in Range(trace) : e.op = "SaveAs" /\ e.file = j}}

Prefix(s, t) == Len(s) <= Len(t) /\ Take(t, Len(s)) = s

\* the file or directory e is the directory d or lies under it
Under(e, d) == d.abs = e.abs /\ Prefix(d.parts, e.parts)

IsSorted(s) == \A m, n \in 1..Len(s) : m < n => StrLess(s[m], s[n])

\* the group a record is about, as the list of its ancestors' names and its own
GroupOf(r, path) == Components(Drop(r.dirpath, Len(FilePath(path))))

Shown(rs) ==
    [n \in 1..Len(rs) |-> <<rs[n].dirpath, rs[n].dirnames, rs[n].filenames>>]

RECURSIVE Orders(_)
\* a directory in every native enumeration order of its keys and of the keys
\* of the directories below it
Orders(keys) ==
    IF keys = <<>> THEN {<<>>}
    ELSE UNION {{<<[name |-> keys[n].name, kind |-> keys[n].kind, keys |-> sub]>>
                    \o rest :
                    sub \in Orders(keys[n].keys),
                    rest \in Orders(SelectSeq(keys, LAMBDA k : k # keys[n]))} :
                n \in 1..Len(keys)}

-----------------------------------------------------------------------------
(* Claims *)

C3_InOrder ==
    /\ \A m, n \in 1..Len(trace) :
          /\ m < n => trace[m].file <= trace[n].file
          /\ trace[n].op = "TFile" =>
                /\ trace[n].arg = args[trace[n].file]
                /\ m < n => trace[m].op # "Close" \/ trace[m].file < trace[n].file
                /\ trace[n].file > 1 =>
                      \E k \in 1..(n - 1) :
                          trace[k].op = "Close" /\ trace[k].file = trace[n].file - 1
          /\ trace[n].op = "Close" /\ m > n => trace[m].file > trace[n].file
    /\ summary # <<>> =>
          /\ Len(returned) = Len(args)
          /\ summary[1] = Sum(returned)

C3_Witness ==
    /\ pc = "done"
    /\ Len(args) = 2
    /\ returned[1] > 0
    /\ returned[2] > 0

Digits == {"0", "1", "2", "3", "4", "5", "6", "7", "8", "9"}

\* path ends in '.root', or in '.root.' and digits
EndsRecognized(path) ==
    \E n \in 0..Len(path) :
        LET rest == Drop(path, n)
            tail == Drop(rest, Len(DotRoot))
        IN  /\ StartsWith(rest, DotRoot)
            /\ \/ tail = <<>>
               \/ tail[1] = "." /\ \A m \in 2..Len(tail) : tail[m] \in Digits

\* C4: strip_root_ext fails for every path that does not end in the
\* recognized suffix: main gets past it only for paths that do.
C4_RejectsUnrecognized == \A j \in 1..i : EndsRecognized(args[j])

\* C5: two callers of make_dir_if_needed at the same time: neither fails,
\* and when both have returned both parent directories exist.
C5_ConcurrentSafe ==
    /\ \A c \in Callers : cpc[c] # "OSError"
    /\ (\A c \in Callers : cpc[c] = "return") =>
          \A c \in Callers :
              CountSlash(cpath[c]) > 0 => IsDir(dirs, Dirname(cpath[c]))

\* C6: whenever control is outside write_root_file, however it left, every
\* container that was opened has been closed.
C6_AlwaysClosed ==
    pc \notin {"walk", "write_canvas", "SaveAs"} => rootfile = "closed"

\* C7: with an invalid pattern the run fails before it creates a directory,
\* opens a container or visits a group, whatever the containers hold.
C7_InvalidPatternFirst ==
    ReError(pattern) =>
        /\ trace = <<>>
        /\ rootfile = "closed"
        /\ rec = 0
        /\ pc \in {"main", "for", "error"}
        /\ pc = "for" => i = 0

\* C8: the summary is always printed in full, and when no time has elapsed the
\* rate it reports is 0.
C8_ZeroElapsed ==
    /\ err # "ZeroDivisionError"
    /\ summary # <<>> =>
          /\ pc = "done"
          /\ Len(summary) = 3
          /\ summary[2] = 0 => summary[3] = 0

Root(j) == strip_root_ext(args[j])

\* C9 as claimed: the output roots of two distinct input paths are distinct,
\* neither lies under the other, and no file written for one equals or lies
\* under a file written for the other.
C9_DistinctRoots ==
    LET root == [j \in 1..i |-> Node(Root(j))]
        out == [j \in 1..i |-> {Node(p) : p \in Outputs(j)}]
    IN  \A j, k \in 1..i :
            j # k /\ args[j] # args[k] =>
                /\ ~Under(root[k], root[j])
                /\ \A p \in out[j], q \in out[k] : ~Under(q, p)

\* C9, amended: the files written for an input path lie under its output
\* root; so when the output roots of two input paths are distinct and
\* neither lies under the other, no file written for one equals or lies
\* under a file written for the other.  (The files written change with each
\* SaveAs, so the statement is evaluated after each.)
C9_DisjointTrees ==
    LET root == [j \in 1..i |-> Node(Root(j))]
        out == [j \in 1..i |-> {Node(p) : p \in Outputs(j)}]
    IN  trace # <<>> /\ trace[Len(trace)].op = "SaveAs" =>
        \A j, k \in 1..i :
            /\ \A p \in out[j] : Under(p, root[j]) /\ p # root[j]
            /\ j # k /\ ~Under(root[k], root[j]) /\ ~Under(root[j], root[k]) =>
                  \A p \in out[j], q \in out[k] : ~Under(q, p)

C9_Witness ==
    \E j, k \in 1..i :
        /\ ~Under(Node(Root(k)), Node(Root(j)))
        /\ ~Under(Node(Root(j)), Node(Root(k)))
        /\ Outputs(j) # {}
        /\ Outputs(k) # {}

\* C10: when the renderer is asked to write basepath + '.eps', the parent
\* directory of basepath exists, basepath is the output root joined with the
\* group path and the name of the object, and when basepath has no directory
\* part make_dir_if_needed created nothing and did not fail.
C10_ParentExists ==
    pc = "SaveAs" =>
        LET group == Drop(records[rec].dirpath, Len(FilePath(args[i])))
            name == records[rec].filenames[key]
        IN  /\ err = ""
            /\ CountSlash(basepath) > 0 => Node(Dirname(basepath)) \in dirs
            /\ \A n \in 1..Len(Node(Dirname(basepath)).parts) :
                  [abs |-> Node(basepath).abs,
                   parts |-> Take(Node(basepath).parts, n)] \in dirs
            /\ basepath = Join(Join(Root(i), group), name)
            /\ CountSlash(basepath) = 0 => trace[Len(trace)].op = "write_canvas"

C10_Witness ==
    /\ pc = "SaveAs"
    /\ CountSlash(basepath) > 1
    /\ trace[Len(trace)].op = "makedirs"

====
